---- MODULE Spec2Model ----
(***************************************************************************)
(* Model of the message delivery and reconstruction pipeline of            *)
(* pusher-chat:                                                            *)
(*   - the offline send queue (src/hooks/useMessageQueue.ts), a React hook *)
(*     whose callbacks read the state captured by the render that created  *)
(*     them;                                                               *)
(*   - the chunker / reassembler and the conversation read of the          *)
(*     unencrypted variant of lib/chat (src/middleware.ts, lines 21-488).  *)
(***************************************************************************)
EXTENDS Integers, Sequences, FiniteSets, TLC

(***************************************************************************)
(* Program constants.                                                      *)
(***************************************************************************)
\* useMessageQueue.ts:67   if (message.retryCount >= 3)
RetryLimit == 3
\* middleware.ts:65       content.length > 1000
ChunkThreshold == 1000
\* middleware.ts:104      const chunkSize = 800
ChunkSize == 800
\* middleware.ts:161      .limit(100)
ReadLimit == 100

(***************************************************************************)
(* Bounds of the model.                                                    *)
(***************************************************************************)
\* addToQueue calls in one behaviour
MaxEnqueued == 3
\* onSendMessage calls in one behaviour (the throw path of the code has no cap)
MaxSends == 6
\* processQueue invocations in flight at once
MaxDrains == 2
\* manual processQueue calls in one behaviour
MaxManual == 1
\* sendMessage calls in one behaviour of the store
MaxStoreSends == 2
\* values of the clients' clocks when sendMessage stamps a message: 1..MaxTime
MaxTime == 2
\* rows of one conversation that carry the same timestamp
MaxTiedRows == 4
\* Rows of one conversation in the store.
MaxConversationRows == 6
\* rows a conversation may hold beyond the read limit
MaxExtraRows == 1
\* rows handed to processChunkedMessages directly
MaxRowsIn == 3

Uids == 1..MaxEnqueued

VARIABLES
  messageQueue,   \* useState<QueuedMessage[]>: the latest state
  isProcessing,   \* useState(false): the latest state
  isOnline,       \* useOnlineStatus()
  rendered,       \* the state captured by the callbacks of the last render
  drains,         \* processQueue invocations suspended at their await
  clock,          \* Date.now() as last read by addToQueue
  nextUid,        \* ghost: number of addToQueue calls so far, plus one
  sendCount,      \* ghost: uid -> onSendMessage calls invoked for the entry
  okCount,        \* ghost: uid -> sends that resolved true
  manualCalls,    \* ghost: manual processQueue calls that passed the guard
  offlineBatch,   \* ghost: every entry so far was queued offline, before any send
  lateSend,       \* ghost: uids sent again after one of their sends resolved true
  store,          \* the rows of the messages table
  sendResult,     \* what the last sendMessage returned ("none" before the first)
  sentLog,        \* ghost: the sendMessage calls that inserted rows, in call order
  queried,        \* the ids of the rows the last query of getMessages returned
  processed,      \* what processChunkedMessages made of them
  fetched,        \* what the last getMessages returned
  readOf,         \* ghost: the last getMessages call, and the sends made before it
  rowsIn,         \* the rows handed to processChunkedMessages
  encStore,       \* the rows of the messages table of the encrypted variant
  encLog,         \* ghost: the encrypted sendMessage calls that inserted rows
  encRead,        \* the last encrypted getMessages call and what it returned
  table,          \* the messages table with its status and edit columns: id -> row
  receipts,       \* the rows of the message_reads table
  lastCall,       \* ghost: the last status call, the table before and after it
  time,           \* the wall clock, in milliseconds
  ticks,          \* ghost: the number of times the clock was advanced
  editCalls,      \* editMessage calls suspended between their select and their update
  editLog,        \* ghost: the editMessage calls that returned: the last, and counts
  canEdit,        \* the arguments and the result of a canEditMessage call
  kind,           \* ghost: uid -> whether sendMessage accepts the entry's parameters
  selectedUser,   \* the conversation partner selected in the chat view
  selections,     \* ghost: the number of times the selection was changed
  receiverOf,     \* ghost: uid -> the receiverUsername recorded in the queued entry
  drainUser       \* for each drain in flight, the selectedUser its sends go to

queueVars == <<messageQueue, isProcessing, isOnline, rendered, drains, clock,
               nextUid, sendCount, okCount, manualCalls, offlineBatch, lateSend>>

messageVars == <<store, sendResult, sentLog, queried, processed, fetched, readOf, rowsIn>>

encVars == <<encStore, encLog, encRead>>

tableVars == <<table, receipts, lastCall, time, ticks, editCalls, editLog, canEdit>>

appVars == <<kind, selectedUser, selections, receiverOf, drainUser>>

\* Everything outside the hook.
storeVars == <<messageVars, encVars, tableVars, appVars>>

vars == <<queueVars, storeVars>>

(***************************************************************************)
(* Sequence helpers.                                                       *)
(***************************************************************************)
SeqRange(s) == { s[i] : i \in 1..Len(s) }

(***************************************************************************)
(* useMessageQueue                                                         *)
(***************************************************************************)
\* The render's view of the hook state: what processQueue of that render reads.
CurrentState == [queue |-> messageQueue, processing |-> isProcessing, online |-> isOnline]

\* addToQueue: the new entry; id is Date.now().toString(), retryCount 0.
NewQueuedMessage(uid, now) == [uid |-> uid, id |-> now, retryCount |-> 0]

\* setMessageQueue(prev => [...prev, queuedMessage])
AppendToQueue(prev, queuedMessage) == Append(prev, queuedMessage)

\* removeFromQueue: prev.filter(msg => msg.id !== messageId)
RemoveFromQueue(prev, messageId) ==
  LET keep(msg) == msg.id # messageId IN SelectSeq(prev, keep)

\* prev.map(msg => msg.id === message.id ? {...msg, retryCount: msg.retryCount + 1} : msg)
IncrementRetry(prev, messageId) ==
  [i \in 1..Len(prev) |->
     IF prev[i].id = messageId
     THEN [prev[i] EXCEPT !.retryCount = @ + 1]
     ELSE prev[i]]

\* The test that drops a failed entry: it reads the entry of the snapshot the
\* drain iterates, not the entry just incremented in the state.
RetryExhausted(message) == message.retryCount >= RetryLimit

\* The state update of one loop iteration, by the outcome of the awaited send.
AfterSend(prev, message, outcome) ==
  CASE outcome = "ok"    -> RemoveFromQueue(prev, message.id)
    [] outcome = "false" -> IF RetryExhausted(message)
                            THEN RemoveFromQueue(IncrementRetry(prev, message.id), message.id)
                            ELSE IncrementRetry(prev, message.id)
    [] outcome = "throw" -> IncrementRetry(prev, message.id)

\* What the awaited onSendMessage may do: resolve true, resolve false, reject.
Outcomes == {"ok", "false", "throw"}

\* A processQueue that never passes its guard.
NeverProcess(view) == FALSE

\* The guard of processQueue, on the state its render captured.
CanProcess(view) == view.online /\ ~view.processing /\ Len(view.queue) > 0

\* The order in which a drain visits its snapshot: for (const message of messageQueue)
DrainOrder(snapshot) == snapshot

RECURSIVE SumOver(_, _)
SumOver(f, S) ==
  IF S = {} THEN 0
  ELSE LET x == CHOOSE y \in S : TRUE IN f[x] + SumOver(f, S \ {x})

\* The sends a drain in flight has still to invoke.
Remaining(d) == Len(d.snapshot) - d.pos

\* Bound of the model: room for one more drain, and for the sends of every
\* drain in flight and of this one within MaxSends.
UnderCap(snapshot) ==
  /\ Len(drains) < MaxDrains
  /\ SumOver(sendCount, Uids)
       + SumOver([i \in 1..Len(drains) |-> Remaining(drains[i])], 1..Len(drains))
       + Len(snapshot) <= MaxSends

\* The sends of entry u that are awaited now.
InFlight(u) == Cardinality({ i \in 1..Len(drains) : drains[i].snapshot[drains[i].pos].uid = u })

\* The sends of entry u that have failed (resolved false or rejected).
Failures(u) == sendCount[u] - okCount[u] - InFlight(u)

\* processQueue of the render `view`, its guard passed: setIsProcessing(true),
\* then the loop runs to the await of the first send.
StartDrain(view) ==
  LET snapshot == DrainOrder(view.queue) IN
  /\ isProcessing' = TRUE
  /\ drains' = Append(drains, [snapshot |-> snapshot, pos |-> 1, sent |-> <<snapshot[1].uid>>])
  /\ sendCount' = [sendCount EXCEPT ![snapshot[1].uid] = @ + 1]
  /\ lateSend' = IF okCount[snapshot[1].uid] > 0
                 THEN lateSend \cup {snapshot[1].uid} ELSE lateSend

(***************************************************************************)
(* lib/chat (unencrypted variant): sendMessage, sendLargeMessage,          *)
(* getMessages, processChunkedMessages.                                    *)
(*                                                                         *)
(* A character is a number, its code. A content is held as the sequence of *)
(* its maximal runs of consecutive codes: <<[from |-> 5, to |-> 7],        *)
(* [from |-> 5, to |-> 6]>> is the 5 characters 5 6 7 5 6. Every string    *)
(* has exactly one such sequence, so two contents are the same string      *)
(* exactly when they are equal. A row of the messages table is a record;   *)
(* chunk_info is NoChunk (null) on an ordinary row.                        *)
(***************************************************************************)
NoChunk == [is_chunked |-> FALSE]

Min(a, b) == IF a <= b THEN a ELSE b

RunLength(run) == run.to - run.from + 1

\* content.length
RECURSIVE Length(_)
Length(content) ==
  IF content = <<>> THEN 0 ELSE RunLength(Head(content)) + Length(Tail(content))

\* The string a followed by the string b.
Concat(a, b) ==
  IF a = <<>> THEN b
  ELSE IF b = <<>> THEN a
  ELSE IF a[Len(a)].to + 1 = Head(b).from
       THEN SubSeq(a, 1, Len(a) - 1) \o <<[from |-> a[Len(a)].from, to |-> Head(b).to]>> \o Tail(b)
       ELSE a \o b

\* The first n characters of content (all of it when it has fewer).
RECURSIVE Take(_, _)
Take(content, n) ==
  IF n <= 0 \/ content = <<>> THEN <<>>
  ELSE LET run == Head(content) IN
       IF RunLength(run) <= n
       THEN <<run>> \o Take(Tail(content), n - RunLength(run))
       ELSE <<[from |-> run.from, to |-> run.from + n - 1]>>

\* content without its first n characters.
RECURSIVE Drop(_, _)
Drop(content, n) ==
  IF n <= 0 \/ content = <<>> THEN content
  ELSE LET run == Head(content) IN
       IF RunLength(run) <= n
       THEN Drop(Tail(content), n - RunLength(run))
       ELSE <<[from |-> run.from + n, to |-> run.to]>> \o Tail(content)

\* String.prototype.slice(from, to) with 0 <= from <= to: the characters at
\* the 0-based positions from .. to-1 that exist.
Slice(content, from, to) == Take(Drop(content, from), to - from)

\* The loop of sendLargeMessage:
\*   for (let i = 0; i < content.length; i += chunkSize) chunks.push(content.slice(i, i + chunkSize))
RECURSIVE SplitFrom(_, _)
SplitFrom(content, i) ==
  IF i < Length(content)
  THEN <<Slice(content, i, i + ChunkSize)>> \o SplitFrom(content, i + ChunkSize)
  ELSE <<>>

SplitIntoChunks(content) == SplitFrom(content, 0)

\* chunks.map(chunk => chunk.content).join('')
RECURSIVE JoinContents(_)
JoinContents(chunks) ==
  IF chunks = <<>> THEN <<>>
  ELSE Concat(Head(chunks).content, JoinContents(Tail(chunks)))

\* The validation of sendMessage: !senderUsername || !receiverUsername || !content
InvalidParameters(senderUsername, receiverUsername, content) ==
  senderUsername = "" \/ receiverUsername = "" \/ Length(content) = 0

\* A routing test that already chunks content of exactly the threshold length.
IsLargeFromThreshold(content, contentType) ==
  contentType = "text" /\ Length(content) >= ChunkThreshold

\* The test that routes a message to sendLargeMessage.
IsLarge(content, contentType) == contentType = "text" /\ Length(content) > ChunkThreshold

\* The ids the store gives to n new rows.
FreshIds(n) == LET used == { r.id : r \in store } IN
  [k \in 1..n |-> Cardinality(used) + k]

\* The row sendMessage inserts for a regular message.
RegularRow(id, senderUsername, receiverUsername, content, contentType, timestamp) ==
  [id |-> id, sender_username |-> senderUsername, receiver_username |-> receiverUsername,
   content |-> content, content_type |-> contentType, status |-> "sent",
   message_timestamp |-> timestamp, chunk_info |-> NoChunk]

\* The rows sendLargeMessage inserts: chunks.map((chunk, index) => ...).
ChunkRows(ids, senderUsername, receiverUsername, content, messageId, timestamp) ==
  LET chunks == SplitIntoChunks(content) IN
  [k \in 1..Len(chunks) |->
     [id |-> ids[k], sender_username |-> senderUsername,
      receiver_username |-> receiverUsername,
      content |-> chunks[k], content_type |-> "text", status |-> "sent",
      message_timestamp |-> timestamp,
      chunk_info |-> [message_id |-> messageId, chunk_index |-> k - 1,
                      total_chunks |-> Len(chunks), is_chunked |-> TRUE]]]

\* The rows one sendMessage call inserts; messageId is crypto.randomUUID().
RowsToInsert(senderUsername, receiverUsername, content, contentType, messageId, timestamp) ==
  IF IsLarge(content, contentType)
  THEN ChunkRows(FreshIds(Len(SplitIntoChunks(content))), senderUsername, receiverUsername,
                 content, messageId, timestamp)
  ELSE <<RegularRow(FreshIds(1)[1], senderUsername, receiverUsername, content, contentType,
                    timestamp)>>

\* The filter of the query of getMessages.
InConversation(r, currentUsername, otherUsername) ==
  \/ r.sender_username = currentUsername /\ r.receiver_username = otherUsername
  \/ r.sender_username = otherUsername /\ r.receiver_username = currentUsername

\* .order('message_timestamp', { ascending: true }): every order of the rows
\* (named by their ids) by ascending timestamp; rows of equal timestamp come
\* in any order.
RECURSIVE AscendingOrders(_, _)
AscendingOrders(ids, timestampOf) ==
  IF ids = {} THEN {<<>>}
  ELSE LET first == { i \in ids : \A j \in ids : timestampOf[i] <= timestampOf[j] }
       IN UNION { { <<i>> \o rest : rest \in AscendingOrders(ids \ {i}, timestampOf) } : i \in first }

\* .limit(100)
Limit(ordered) == SubSeq(ordered, 1, Min(Len(ordered), ReadLimit))

\* The results the query of getMessages may return, as sequences of row ids.
QueryResults(currentUsername, otherUsername) ==
  LET matching == { r \in store : InConversation(r, currentUsername, otherUsername) }
      timestampOf == [i \in { r.id : r \in matching } |->
                        (CHOOSE r \in matching : r.id = i).message_timestamp]
  IN { Limit(ordered) : ordered \in AscendingOrders(DOMAIN timestampOf, timestampOf) }

\* The rows of the store with the ids of a query result.
RowsOfIds(ids) == [k \in 1..Len(ids) |-> CHOOSE r \in store : r.id = ids[k]]

IsChunked(message) == message.chunk_info.is_chunked

\* The keys of chunkedGroups in insertion order: the message_id of the chunk
\* rows in the order each is first seen.
RECURSIVE GroupIds(_, _)
GroupIds(messages, seen) ==
  IF messages = <<>> THEN <<>>
  ELSE LET m == Head(messages) IN
       IF IsChunked(m) /\ m.chunk_info.message_id \notin seen
       THEN <<m.chunk_info.message_id>>
              \o GroupIds(Tail(messages), seen \cup {m.chunk_info.message_id})
       ELSE GroupIds(Tail(messages), seen)

\* Insertion of a chunk into a sorted list, after the chunks that do not
\* compare greater: Array.prototype.sort is stable.
RECURSIVE InsertByIndex(_, _)
InsertByIndex(sorted, chunk) ==
  IF sorted = <<>> THEN <<chunk>>
  ELSE IF Head(sorted).chunk_info.chunk_index <= chunk.chunk_info.chunk_index
       THEN <<Head(sorted)>> \o InsertByIndex(Tail(sorted), chunk)
       ELSE <<chunk>> \o sorted

\* The chunks left in the order the query returned them.
KeepQueryOrder(chunks) == chunks

\* chunks.sort((a, b) => a.chunk_info.chunk_index - b.chunk_info.chunk_index)
RECURSIVE SortByIndex(_)
SortByIndex(chunks) ==
  IF chunks = <<>> THEN <<>>
  ELSE InsertByIndex(SortByIndex(SubSeq(chunks, 1, Len(chunks) - 1)), chunks[Len(chunks)])

\* The test that a group is complete: chunks.length === expectedChunks.
AllChunksPresent(chunks) == Len(chunks) = chunks[1].chunk_info.total_chunks

\* What one group contributes to reconstructedMessages.
ReconstructGroup(chunks) ==
  LET sorted == SortByIndex(chunks) IN
  IF AllChunksPresent(sorted)
  THEN <<[sorted[1] EXCEPT !.content = JoinContents(sorted), !.chunk_info = NoChunk]>>
  ELSE sorted

RECURSIVE ReconstructAll(_, _)
ReconstructAll(messages, groupIds) ==
  IF groupIds = <<>> THEN <<>>
  ELSE LET inGroup(m) == IsChunked(m) /\ m.chunk_info.message_id = Head(groupIds) IN
       ReconstructGroup(SelectSeq(messages, inGroup)) \o ReconstructAll(messages, Tail(groupIds))

\* return [...regularMessages, ...reconstructedMessages]
ProcessChunkedMessages(messages) ==
  LET regular(m) == ~IsChunked(m) IN
  SelectSeq(messages, regular) \o ReconstructAll(messages, GroupIds(messages, {}))

\* processedMessages.map(message => ({ id, sender_username, ... }))
ToMessage(message) ==
  [id |-> message.id, sender_username |-> message.sender_username,
   receiver_username |-> message.receiver_username, content |-> message.content,
   content_type |-> message.content_type, timestamp |-> message.message_timestamp,
   status |-> message.status]

ToMessages(messages) == [i \in 1..Len(messages) |-> ToMessage(messages[i])]

NoRead == [currentUsername |-> "", otherUsername |-> "", sends |-> 0]

\* No encrypted read yet.
NoEncRead == [variant |-> "none", currentUsername |-> "", otherUsername |-> "",
              order |-> <<>>, messages |-> <<>>]

\* No status call yet.
NoCall == [op |-> "none", ids |-> {}, status |-> "", reader |-> "",
           before |-> <<>>, after |-> <<>>, receiptsBefore |-> {}, result |-> TRUE]

\* The most rows of the messages table with status and edit columns.
MaxTableRows == 2

MessageIds == 1..MaxTableRows

\* No editMessage call has returned.
NoEdits == [returned |-> 0, last |-> [result |-> FALSE, reason |-> "never"],
            ok |-> [id \in MessageIds |-> 0], direct |-> {}]

\* No canEditMessage call.
NoCanEdit == [senderUsername |-> "", currentUsername |-> "", messageTimestamp |-> 0,
              at |-> 0, result |-> FALSE, called |-> FALSE]

InitBase ==
  /\ messageQueue = <<>>
  /\ isProcessing = FALSE
  /\ isOnline \in BOOLEAN
  /\ rendered = [queue |-> <<>>, processing |-> FALSE, online |-> isOnline]
  /\ drains = <<>>
  /\ clock = 0
  /\ nextUid = 1
  /\ sendCount = [u \in Uids |-> 0]
  /\ okCount = [u \in Uids |-> 0]
  /\ manualCalls = 0
  /\ offlineBatch = TRUE
  /\ lateSend = {}
  /\ store = {}
  /\ sendResult = "none"
  /\ sentLog = <<>>
  /\ queried = {}
  /\ processed = <<>>
  /\ fetched = <<>>
  /\ readOf = NoRead
  /\ encStore = {}
  /\ encLog = <<>>
  /\ encRead = NoEncRead
  /\ table = <<>>
  /\ receipts = {}
  /\ lastCall = NoCall
  /\ time = 0
  /\ ticks = 0
  /\ editCalls = {}
  /\ editLog = NoEdits
  /\ kind = [u \in Uids |-> "valid"]
  /\ selectedUser = "bob"
  /\ selections = 0
  /\ receiverOf = [u \in Uids |-> ""]
  /\ drainUser = <<>>

Init == InitBase /\ rowsIn = <<>> /\ canEdit = NoCanEdit

\* The browser's online / offline events (useOnlineStatus).
GoOnline ==
  /\ ~isOnline
  /\ isOnline' = TRUE
  /\ UNCHANGED <<messageQueue, isProcessing, rendered, drains, clock, nextUid,
                 sendCount, okCount, manualCalls, offlineBatch, lateSend>>
  /\ UNCHANGED storeVars

GoOffline ==
  /\ isOnline
  /\ isOnline' = FALSE
  /\ UNCHANGED <<messageQueue, isProcessing, rendered, drains, clock, nextUid,
                 sendCount, okCount, manualCalls, offlineBatch, lateSend>>
  /\ UNCHANGED storeVars

\* addToQueue(content, type, receiverUsername); Date.now() is the value the
\* previous call read (same millisecond) or a later one.
Enqueue ==
  \E elapsed \in {0, 1} :
    /\ nextUid <= MaxEnqueued
    /\ clock' = clock + elapsed
    /\ messageQueue' = AppendToQueue(messageQueue, NewQueuedMessage(nextUid, clock'))
    /\ nextUid' = nextUid + 1
    /\ offlineBatch' = (offlineBatch /\ ~isOnline /\ \A u \in Uids : sendCount[u] = 0)
    /\ UNCHANGED <<isProcessing, isOnline, rendered, drains,
                   sendCount, okCount, manualCalls, lateSend>>

AddToQueue == Enqueue /\ UNCHANGED storeVars

\* React commits a render of the latest state and runs the effect of lines
\* 88-92: processQueue of this render is called when online with a non-empty
\* queue.
Render ==
  /\ rendered # CurrentState
  /\ rendered' = CurrentState
  /\ IF CurrentState.online /\ Len(CurrentState.queue) > 0 /\ CanProcess(CurrentState)
     THEN /\ UnderCap(CurrentState.queue)
          /\ StartDrain(CurrentState)
     ELSE UNCHANGED <<isProcessing, drains, sendCount, lateSend>>
  /\ UNCHANGED <<messageQueue, isOnline, clock, nextUid, okCount, manualCalls, offlineBatch>>

Commit == Render /\ UNCHANGED storeVars

\* A caller invokes the processQueue returned by the last render.
ManualProcessQueue ==
  /\ CanProcess(rendered)
  /\ UnderCap(rendered.queue)
  /\ StartDrain(rendered)
  /\ manualCalls < MaxManual
  /\ manualCalls' = manualCalls + 1
  /\ UNCHANGED <<messageQueue, isOnline, rendered, clock, nextUid,
                 okCount, offlineBatch>>
  /\ UNCHANGED storeVars

\* The awaited send of drain i settles; the loop body runs on to the await of
\* the next send, or to setIsProcessing(false) after the last entry.
Settle(i, outcome) ==
  LET d == drains[i]
      message == d.snapshot[d.pos]
  IN
  /\ messageQueue' = AfterSend(messageQueue, message, outcome)
  /\ okCount' = IF outcome = "ok" THEN [okCount EXCEPT ![message.uid] = @ + 1] ELSE okCount
  /\ IF d.pos < Len(d.snapshot)
     THEN LET next == d.snapshot[d.pos + 1] IN
          /\ drains' = [drains EXCEPT ![i].pos = @ + 1, ![i].sent = Append(@, next.uid)]
          /\ sendCount' = [sendCount EXCEPT ![next.uid] = @ + 1]
          /\ lateSend' = IF okCount'[next.uid] > 0 THEN lateSend \cup {next.uid} ELSE lateSend
          /\ UNCHANGED isProcessing
     ELSE /\ drains' = [j \in 1..(Len(drains) - 1) |-> IF j < i THEN drains[j] ELSE drains[j + 1]]
          /\ isProcessing' = FALSE
          /\ UNCHANGED <<sendCount, lateSend>>
  /\ UNCHANGED <<isOnline, rendered, clock, nextUid, manualCalls, offlineBatch>>

SendSettles(i, outcome) == Settle(i, outcome) /\ UNCHANGED storeVars

SendDone == \E i \in 1..Len(drains) : \E outcome \in Outcomes : SendSettles(i, outcome)

NextAuto ==
  \/ GoOnline
  \/ GoOffline
  \/ AddToQueue
  \/ Commit
  \/ SendDone

Next ==
  \/ NextAuto
  \/ ManualProcessQueue

\* The hook with automatic drains and manual processQueue calls.
Spec == Init /\ [][Next]_vars

\* The hook driven by its effect alone.
SpecAuto == Init /\ [][NextAuto]_vars

(***************************************************************************)
(* The store: sendMessage and getMessages.                                 *)
(***************************************************************************)
\* A content of `len` characters: the codes base+1 .. base+len.
MakeContent(len, base) == IF len = 0 THEN <<>> ELSE <<[from |-> base + 1, to |-> base + len]>>

\* The conversations getMessages is called for.
ReadPairs == {<<"alice", "bob">>, <<"carol", "alice">>}

SendInput(senderUsername, receiverUsername, content, contentType) ==
  [sender |-> senderUsername, receiver |-> receiverUsername,
   content |-> content, type |-> contentType]

\* The text messages alice sends bob: at the threshold; just above it; two
\* full chunks and one character; the 2,500 characters of the scenario; 1,200
\* characters that are a block of 600 twice (every character occurs twice).
TextInputs ==
  { SendInput("alice", "bob", c, "text") :
      c \in { MakeContent(1000, 10000), MakeContent(1001, 20000),
              MakeContent(1601, 40000), MakeContent(2500, 50000),
              Concat(MakeContent(600, 60000), MakeContent(600, 60000)) } }

\* An image above the threshold; a reply of two full chunks and a short one;
\* a chunked message of another conversation.
OtherInputs ==
  { SendInput("alice", "bob", MakeContent(1001, 70000), "image"),
    SendInput("bob", "alice", MakeContent(1600, 30000), "text"),
    SendInput("bob", "alice", MakeContent(2, 90000), "text"),
    SendInput("alice", "carol", MakeContent(1001, 20000), "text") }

\* Calls the validation rejects: no sender, no receiver, no content.
InvalidInputs ==
  { SendInput("", "bob", MakeContent(1, 0), "text"),
    SendInput("alice", "", MakeContent(1, 0), "text"),
    SendInput("alice", "bob", MakeContent(0, 0), "text") }

SendInputs == TextInputs \cup OtherInputs \cup InvalidInputs

\* The client clocks: the first message is stored at time 1, a later one in
\* the millisecond of the message before it or in the next.
Now == IF sentLog = <<>> THEN {1}
       ELSE { sentLog[Len(sentLog)].timestamp, sentLog[Len(sentLog)].timestamp + 1 }

\* Bound of the model: the rows of one conversation that share a timestamp.
TiedRows(rows, sender, receiver, timestamp) ==
  Cardinality({ r \in store : /\ InConversation(r, sender, receiver)
                              /\ r.message_timestamp = timestamp }) + Len(rows)

\* Bound of the model: the rows of one conversation.
ConversationRows(rows, sender, receiver) ==
  Cardinality({ r \in store : InConversation(r, sender, receiver) }) + Len(rows)

\* sendMessage(senderUsername, receiverUsername, content, contentType) at the
\* client time `timestamp`; inserted is whether the insert succeeds.
DoSendMessage(senderUsername, receiverUsername, content, contentType, timestamp, inserted) ==
  LET rows == RowsToInsert(senderUsername, receiverUsername, content, contentType,
                           Len(sentLog) + 1, timestamp)
  IN
  IF InvalidParameters(senderUsername, receiverUsername, content) \/ ~inserted
  THEN /\ sendResult' = FALSE
       /\ UNCHANGED <<store, sentLog>>
  ELSE /\ store' = store \cup SeqRange(rows)
       /\ sendResult' = TRUE
       /\ sentLog' = Append(sentLog,
                       [sender_username |-> senderUsername,
                        receiver_username |-> receiverUsername,
                        content |-> content, content_type |-> contentType,
                        timestamp |-> timestamp,
                        rows |-> { rows[k].id : k \in 1..Len(rows) }])

SendMessage ==
  \E in \in SendInputs, timestamp \in Now, inserted \in BOOLEAN :
    /\ Len(sentLog) < MaxStoreSends
    /\ timestamp <= MaxTime
    /\ TiedRows(RowsToInsert(in.sender, in.receiver, in.content, in.type, 0, timestamp),
                in.sender, in.receiver, timestamp) <= MaxTiedRows
    /\ ConversationRows(RowsToInsert(in.sender, in.receiver, in.content, in.type, 0, timestamp),
                        in.sender, in.receiver) <= MaxConversationRows
    /\ DoSendMessage(in.sender, in.receiver, in.content, in.type, timestamp, inserted)
    /\ UNCHANGED <<queried, processed, fetched, readOf, rowsIn>>
    /\ UNCHANGED queueVars
    /\ UNCHANGED <<encVars, tableVars, appVars>>

\* getMessages(currentUsername, otherUsername), the query answering `rows`.
DoGetMessages(currentUsername, otherUsername, rows) ==
  /\ queried' = { rows[k].id : k \in 1..Len(rows) }
  /\ processed' = ProcessChunkedMessages(rows)
  /\ fetched' = ToMessages(processed')
  /\ readOf' = [currentUsername |-> currentUsername, otherUsername |-> otherUsername,
                sends |-> Len(sentLog)]

GetMessages ==
  /\ store # {}
  /\ \E pair \in ReadPairs :
       \E ids \in QueryResults(pair[1], pair[2]) :
         /\ DoGetMessages(pair[1], pair[2], RowsOfIds(ids))
         /\ UNCHANGED <<store, sendResult, sentLog, rowsIn>>
         /\ UNCHANGED queueVars
         /\ UNCHANGED <<encVars, tableVars, appVars>>

NextStore ==
  \/ SendMessage
  \/ GetMessages

InitStore == Init /\ isOnline

\* The messages table under sendMessage and getMessages.
SpecStore == InitStore /\ [][NextStore]_vars

(***************************************************************************)
(* A conversation longer than the read limit: alice sends bob one          *)
(* character at a time, each message a millisecond after the one before.   *)
(***************************************************************************)
SendNext ==
  /\ Cardinality(store) < ReadLimit + MaxExtraRows
  /\ DoSendMessage("alice", "bob", MakeContent(1, 0), "text", Len(sentLog) + 1, TRUE)
  /\ UNCHANGED <<queried, processed, fetched, readOf, rowsIn>>
  /\ UNCHANGED queueVars
  /\ UNCHANGED <<encVars, tableVars, appVars>>

NextLimit ==
  \/ SendNext
  \/ GetMessages

\* The messages table of one long conversation.
SpecLimit == InitStore /\ [][NextLimit]_vars

(***************************************************************************)
(* processChunkedMessages on any rows: ordinary rows, and the fragments of *)
(* two chunk groups, each fragment in up to two copies (two rows with the  *)
(* same message_id and chunk_index), some fragments absent.                *)
(***************************************************************************)
\* total_chunks of the two groups of the inputs.
GroupTotal(g) == g + 1

FragmentRow(id, g, index) ==
  [id |-> id, sender_username |-> "alice", receiver_username |-> "bob",
   content |-> MakeContent(2, 100 * g + 10 * index), content_type |-> "text",
   status |-> "sent", message_timestamp |-> g,
   chunk_info |-> [message_id |-> g, chunk_index |-> index,
                   total_chunks |-> GroupTotal(g), is_chunked |-> TRUE]]

\* Row ids: 1000 * copy + 100 * group + index for a fragment, 1 and 2 for the
\* ordinary rows.
InputRows ==
  { RegularRow(i, "bob", "alice", MakeContent(1, 900 + i), "text", 3) : i \in 1..2 }
    \cup { FragmentRow(1000 * copy + 100 * g + index, g, index) :
             copy \in 1..2, g \in 1..2, index \in 0..2 }

\* The sequences of at most n distinct rows of S.
RECURSIVE DistinctSeqs(_, _)
DistinctSeqs(S, n) ==
  IF n = 0 THEN {<<>>}
  ELSE LET shorter == DistinctSeqs(S, n - 1) IN
       shorter \cup { Append(q, r) : q \in shorter, r \in S }

HasNoRepeat(q) == \A i, j \in 1..Len(q) : i # j => q[i] # q[j]

RowInputs ==
  { q \in DistinctSeqs({ r \in InputRows : \/ ~IsChunked(r)
                                           \/ r.chunk_info.chunk_index < r.chunk_info.total_chunks },
                       MaxRowsIn) : HasNoRepeat(q) }

InitReassemble == InitBase /\ isOnline /\ rowsIn \in RowInputs /\ canEdit = NoCanEdit

Reassemble ==
  /\ readOf = NoRead
  /\ processed' = ProcessChunkedMessages(rowsIn)
  /\ fetched' = ToMessages(processed')
  /\ queried' = { rowsIn[k].id : k \in 1..Len(rowsIn) }
  /\ readOf' = [currentUsername |-> "alice", otherUsername |-> "bob", sends |-> 0]
  /\ UNCHANGED <<store, sendResult, sentLog, rowsIn>>
  /\ UNCHANGED queueVars
  /\ UNCHANGED <<encVars, tableVars, appVars>>

NextReassemble == Reassemble

\* processChunkedMessages as a function of its argument.
SpecReassemble == InitReassemble /\ [][NextReassemble]_vars

(***************************************************************************)
(* Claims about the offline queue.                                         *)
(***************************************************************************)
InQueue(u) == \E i \in 1..Len(messageQueue) : messageQueue[i].uid = u

\* C1: an entry whose send has failed on 3 attempts (and never succeeded) is
\* absent from the queue once the 3rd failure has been handled, and no 4th
\* send of it is invoked.
C1_RetryCeiling ==
  \A u \in Uids :
    okCount[u] = 0 =>
      /\ sendCount[u] <= RetryLimit
      /\ Failures(u) >= RetryLimit => ~InQueue(u)

\* C2: the sends invoked for one entry are bounded, whether the send resolves
\* false or rejects: no entry is sent more often than the ceiling plus one,
\* the most the resolve-false path of the code allows.
C2_BoundedRetry ==
  \A u \in Uids : sendCount[u] <= RetryLimit + 1

\* C3: at most one send of an entry succeeds; an entry one of whose sends has
\* succeeded is absent from the queue and no send of it is invoked afterwards.
C3_NoDuplicateDelivery ==
  \A u \in Uids :
    /\ okCount[u] <= 1
    /\ okCount[u] >= 1 => ~InQueue(u)
    /\ u \notin lateSend

\* The entries a drain has sent so far are in enqueue order.
FifoWithinDrain ==
  \A i \in 1..Len(drains) :
    \A j, k \in 1..Len(drains[i].sent) : j < k => drains[i].sent[j] < drains[i].sent[k]

\* Entry u has left the queue without a successful send.
Dropped(u) == u < nextUid /\ ~InQueue(u) /\ okCount[u] = 0

\* C4: a drain sends the entries in enqueue order; for 3 entries queued while
\* offline of which the 1st and 3rd never fail and the 2nd fails on every
\* attempt, the 2nd is dropped only after the 1st and 3rd were delivered, and
\* it is out of the queue once it has failed more often than the ceiling.
C4_FifoDrain ==
  /\ FifoWithinDrain
  /\ (/\ offlineBatch
      /\ nextUid = 4
      /\ Failures(1) = 0
      /\ Failures(3) = 0
      /\ okCount[2] = 0)
     => /\ Dropped(2) => okCount[1] >= 1 /\ okCount[3] >= 1
        /\ Failures(2) > RetryLimit => ~InQueue(2)

\* C5: the ids of the queued entries are pairwise distinct.
C5_UniqueIds ==
  \A i, j \in 1..Len(messageQueue) :
    i # j => messageQueue[i].id # messageQueue[j].id


(***************************************************************************)
(* Claims about the message store.                                         *)
(***************************************************************************)
HasRead == readOf # NoRead

\* The rows of the store that send number i wrote.
RowsOf(i) == { r \in store : r.id \in sentLog[i].rows }

\* The positions of the read's processed list that hold a row of send i.
PositionsOf(i) == { k \in 1..Len(processed) : processed[k].id \in sentLog[i].rows }

WasChunked(i) == sentLog[i].content_type = "text" /\ Length(sentLog[i].content) > ChunkThreshold

ReadBack(i) == WasChunked(i) /\ sentLog[i].rows \subseteq queried

\* C6: a text message of more than 1,000 characters that was chunked on
\* write and whose rows are all read back comes out of processChunkedMessages
\* as exactly one message: its content is the original content, its
\* chunk_info is cleared, and its other fields are those of the fragment of
\* index 0.
C6_ChunkRoundTrip ==
  HasRead =>
    \A i \in 1..Len(sentLog) :
      ReadBack(i) =>
        /\ Cardinality(PositionsOf(i)) = 1
        /\ \A k \in PositionsOf(i) :
             /\ processed[k].content = sentLog[i].content
             /\ processed[k].chunk_info = NoChunk
             /\ \E r \in RowsOf(i) :
                  /\ r.chunk_info.chunk_index = 0
                  /\ processed[k] = [r EXCEPT !.content = sentLog[i].content,
                                              !.chunk_info = NoChunk]
             /\ fetched[k].content = sentLog[i].content
             /\ fetched[k].sender_username = sentLog[i].sender_username
             /\ fetched[k].timestamp = sentLog[i].timestamp

\* A read returned, after another message, a 2,500-character message put
\* together from its four fragments.
C6_Witness ==
  /\ HasRead
  /\ Len(processed) = 2
  /\ \E i \in 1..Len(sentLog) :
       /\ ReadBack(i)
       /\ Length(sentLog[i].content) = 2500
       /\ \E k \in PositionsOf(i) : k = 2 /\ fetched[k].content = sentLog[i].content

\* ceil(n / ChunkSize)
CeilDiv(n) == (n + ChunkSize - 1) \div ChunkSize

\* The rows of send i in chunk_index order, when each index 0..n-1 occurs once.
RowAt(i, index) == CHOOSE r \in RowsOf(i) : r.chunk_info.chunk_index = index

\* C7: content of at most 1,000 characters (or non-text content) is written
\* as a single row without chunk_info; longer text content of length n is
\* written as ceil(n / 800) rows that share one message_id and one
\* total_chunks, carry the indices 0..total_chunks-1 once each, and hold
\* contiguous non-overlapping slices of at most 800 characters in the
\* original order: 2,500 characters give slices of 800, 800, 800 and 100.
C7_ChunkShape ==
  \A i \in 1..Len(sentLog) :
    LET n == Length(sentLog[i].content)
        total == CeilDiv(n)
    IN
    IF WasChunked(i)
    THEN /\ Cardinality(RowsOf(i)) = total
         /\ \A r \in RowsOf(i) :
              /\ r.chunk_info.is_chunked
              /\ r.chunk_info.total_chunks = total
              /\ r.chunk_info.chunk_index \in 0..(total - 1)
              /\ Length(r.content) =
                   IF r.chunk_info.chunk_index < total - 1 THEN ChunkSize
                   ELSE n - ChunkSize * (total - 1)
         /\ \A r, q \in RowsOf(i) :
              /\ r.chunk_info.message_id = q.chunk_info.message_id
              /\ r # q => r.chunk_info.chunk_index # q.chunk_info.chunk_index
         /\ JoinContents([k \in 1..total |-> RowAt(i, k - 1)]) = sentLog[i].content
         /\ n = 2500 => /\ total = 4
                        /\ Length(RowAt(i, 3).content) = 100
    ELSE /\ Cardinality(RowsOf(i)) = 1
         /\ \A r \in RowsOf(i) : r.chunk_info = NoChunk /\ r.content = sentLog[i].content

\* Both shapes have been written: 1,000 characters as one row and 2,500
\* characters as four.
C7_Witness ==
  /\ \E i \in 1..Len(sentLog) :
       Length(sentLog[i].content) = ChunkThreshold /\ sentLog[i].content_type = "text"
         /\ Cardinality(RowsOf(i)) = 1
  /\ \E i \in 1..Len(sentLog) :
       Length(sentLog[i].content) = 2500 /\ Cardinality(RowsOf(i)) = 4

\* The fragments of group g among the rows handed to processChunkedMessages.
Fragments(g) ==
  { k \in 1..Len(rowsIn) : IsChunked(rowsIn[k]) /\ rowsIn[k].chunk_info.message_id = g }

GroupsIn == { rowsIn[k].chunk_info.message_id : k \in { j \in 1..Len(rowsIn) : IsChunked(rowsIn[j]) } }

\* Some index of 0..total_chunks-1 has no fragment among the rows.
IndexMissing(g) ==
  \E j \in Fragments(g) :
    \E index \in 0..(rowsIn[j].chunk_info.total_chunks - 1) :
      \A k \in Fragments(g) : rowsIn[k].chunk_info.chunk_index # index

Occurrences(message) == Cardinality({ k \in 1..Len(processed) : processed[k] = message })

\* C8: for every set of rows, a chunk group that lacks a fragment of some
\* index is not reconstructed: each fragment present comes out as an
\* individual message, unchanged and once, and no row comes out twice.
C8_PartialChunkSafety ==
  HasRead =>
    /\ \A g \in GroupsIn :
         IndexMissing(g) => \A k \in Fragments(g) : Occurrences(rowsIn[k]) = 1
    /\ \A j, k \in 1..Len(processed) : j # k => processed[j].id # processed[k].id

\* C9: the messages getMessages returns are in ascending timestamp order.
C9_AscendingOrder ==
  \A j, k \in 1..Len(fetched) : j < k => fetched[j].timestamp <= fetched[k].timestamp

\* The read was made after the last send, of the conversation of that send.
FreshRead ==
  /\ HasRead
  /\ Len(sentLog) > 0
  /\ readOf.sends = Len(sentLog)
  /\ LET last == sentLog[Len(sentLog)] IN
     \/ readOf.currentUsername = last.sender_username
          /\ readOf.otherUsername = last.receiver_username
     \/ readOf.currentUsername = last.receiver_username
          /\ readOf.otherUsername = last.sender_username

\* C10: the bounded read is built from the most recent rows of the
\* conversation, so the rows of the message sendMessage stored last are among
\* the rows the next getMessages works on, and no row left out is later than
\* a row taken.
C10_MostRecentRows ==
  FreshRead =>
    /\ sentLog[Len(sentLog)].rows \subseteq queried
    /\ \A r, q \in { m \in store : InConversation(m, readOf.currentUsername, readOf.otherUsername) } :
         (r.id \in queried /\ q.id \notin queried) => q.message_timestamp <= r.message_timestamp

(***************************************************************************)
(* The encrypted variant: sendMessage stores one copy of a message for the *)
(* receiver and one for the sender, each encrypted with its reader's key;  *)
(* getMessages decrypts the rows addressed to the reader.  There are two   *)
(* implementations of the pair, src/middleware.ts and src/lib/chat.ts.     *)
(***************************************************************************)

\* The most encrypted sendMessage calls of a behaviour.
MaxEncSends == 2

EncUsers == {"alice", "bob", "carol"}

EncContents == {"hi", "yo"}

Variants == {"middleware", "chat"}

\* encryptMessage(content, publicKey of owner): only owner's private key opens it.
EncryptMessage(content, owner) == [plain |-> content, key |-> owner]

\* decryptMessage(encrypted_content, privateKey of reader); "throw" when the
\* key is not the one the content was encrypted for.
DecryptMessage(encrypted, reader) ==
  IF encrypted.key = reader THEN encrypted.plain ELSE "throw"

\* The two rows sendMessage inserts; the database gives both the timestamp of
\* the one INSERT statement.  lib/chat.ts sets no original_receiver.
EncRowsToInsert(variant, senderUsername, receiverUsername, content, contentType, timestamp) ==
  LET n == Cardinality(encStore) IN
  { [id |-> n + 1, sender_username |-> senderUsername,
     receiver_username |-> receiverUsername,
     encrypted_content |-> EncryptMessage(content, receiverUsername),
     content_type |-> contentType, timestamp |-> timestamp,
     original_receiver |-> ""],
    [id |-> n + 2, sender_username |-> senderUsername,
     receiver_username |-> senderUsername,
     encrypted_content |-> EncryptMessage(content, senderUsername),
     content_type |-> contentType, timestamp |-> timestamp,
     original_receiver |-> IF variant = "middleware" THEN receiverUsername ELSE ""] }

\* The or-filter of getMessages: the two directions and the reader's self copies.
EncInConversation(r, currentUsername, otherUsername) ==
  \/ r.sender_username = currentUsername /\ r.receiver_username = otherUsername
  \/ r.sender_username = otherUsername /\ r.receiver_username = currentUsername
  \/ r.sender_username = currentUsername /\ r.receiver_username = currentUsername

EncRow(id) == CHOOSE r \in encStore : r.id = id

\* .order('timestamp', ascending): every order of the ids the store may return.
EncQueryResults(currentUsername, otherUsername) ==
  LET ids == { r.id : r \in { q \in encStore :
                                EncInConversation(q, currentUsername, otherUsername) } }
      timestampOf == [i \in ids |-> EncRow(i).timestamp]
  IN AscendingOrders(ids, timestampOf)

\* The key getMessages de-duplicates on.
MiddlewareKey(message, decryptedContent) ==
  <<message.sender_username, decryptedContent, message.timestamp, message.content_type>>

ChatKey(message) ==
  <<message.sender_username, message.timestamp, message.content_type>>

DecryptedMessage(message, receiver, decryptedContent) ==
  [id |-> message.id, sender_username |-> message.sender_username,
   receiver_username |-> receiver, content |-> decryptedContent,
   content_type |-> message.content_type, timestamp |-> message.timestamp]

\* The loop of getMessages in middleware.ts over the rows from position i on:
\* decrypt the rows addressed to the reader, then skip a key already seen.
RECURSIVE MiddlewareLoop(_, _, _, _, _, _)
MiddlewareLoop(messages, i, currentUsername, otherUsername, seen, out) ==
  IF i > Len(messages) THEN out
  ELSE
    LET message == EncRow(messages[i])
        decryptedContent == DecryptMessage(message.encrypted_content, currentUsername)
        actualReceiver ==
          IF message.original_receiver # "" THEN message.original_receiver
          ELSE IF message.sender_username = currentUsername
                  /\ message.receiver_username = currentUsername
               THEN otherUsername ELSE message.receiver_username
        messageKey == MiddlewareKey(message, decryptedContent)
    IN IF message.receiver_username # currentUsername \/ decryptedContent = "throw"
       THEN MiddlewareLoop(messages, i + 1, currentUsername, otherUsername, seen, out)
       ELSE IF messageKey \in seen
       THEN MiddlewareLoop(messages, i + 1, currentUsername, otherUsername, seen, out)
       ELSE MiddlewareLoop(messages, i + 1, currentUsername, otherUsername,
                           seen \cup {messageKey},
                           Append(out, DecryptedMessage(message, actualReceiver,
                                                        decryptedContent)))

\* The decision of lib/chat.ts to skip a row: its key was seen already.
SkipDuplicate(messageKey, seen) == messageKey \in seen

\* The loop of getMessages in lib/chat.ts: the key of every row is recorded
\* before the row is tested for being addressed to the reader.
RECURSIVE ChatLoop(_, _, _, _, _, _)
ChatLoop(messages, i, currentUsername, otherUsername, seen, out) ==
  IF i > Len(messages) THEN out
  ELSE
    LET message == EncRow(messages[i])
        messageKey == ChatKey(message)
        decryptedContent == DecryptMessage(message.encrypted_content, currentUsername)
    IN IF SkipDuplicate(messageKey, seen)
       THEN ChatLoop(messages, i + 1, currentUsername, otherUsername, seen, out)
       ELSE IF message.receiver_username # currentUsername \/ decryptedContent = "throw"
       THEN ChatLoop(messages, i + 1, currentUsername, otherUsername,
                     seen \cup {messageKey}, out)
       ELSE ChatLoop(messages, i + 1, currentUsername, otherUsername,
                     seen \cup {messageKey},
                     Append(out, DecryptedMessage(message, otherUsername,
                                                  decryptedContent)))

\* Array.prototype.sort by timestamp, which is stable: insert m after the
\* last element that is not later than it.
RECURSIVE InsertByTimestamp(_, _)
InsertByTimestamp(sorted, m) ==
  IF sorted = <<>> THEN <<m>>
  ELSE IF sorted[Len(sorted)].timestamp <= m.timestamp THEN Append(sorted, m)
  ELSE Append(InsertByTimestamp(SubSeq(sorted, 1, Len(sorted) - 1), m),
              sorted[Len(sorted)])

RECURSIVE SortByTimestamp(_)
SortByTimestamp(messages) ==
  IF messages = <<>> THEN <<>>
  ELSE InsertByTimestamp(SortByTimestamp(SubSeq(messages, 1, Len(messages) - 1)),
                         messages[Len(messages)])

\* What getMessages returns for the rows in the order the store gave them.
EncDecryptAll(variant, messages, currentUsername, otherUsername) ==
  SortByTimestamp(
    IF variant = "middleware"
    THEN MiddlewareLoop(messages, 1, currentUsername, otherUsername, {}, <<>>)
    ELSE ChatLoop(messages, 1, currentUsername, otherUsername, {}, <<>>))

\* The time of the INSERT: that of the send before, or a millisecond later.
EncNow == IF encLog = <<>> THEN {1}
          ELSE {encLog[Len(encLog)].timestamp, encLog[Len(encLog)].timestamp + 1}

\* sendMessage of the encrypted variant; both users exist.  A deployment
\* runs one of the two implementations.
EncSendMessage ==
  /\ Len(encLog) < MaxEncSends
  /\ \E variant \in Variants, senderUsername \in EncUsers, receiverUsername \in EncUsers,
        content \in EncContents, timestamp \in EncNow :
       /\ senderUsername # receiverUsername
       /\ encLog # <<>> => variant = encLog[1].variant
       /\ encStore' = encStore \cup EncRowsToInsert(variant, senderUsername,
                                     receiverUsername, content, "text", timestamp)
       /\ encLog' = Append(encLog, [variant |-> variant, sender |-> senderUsername,
                                    receiver |-> receiverUsername, content |-> content,
                                    content_type |-> "text", timestamp |-> timestamp])
  /\ UNCHANGED <<encRead, queueVars, messageVars, tableVars, appVars>>

\* getMessages(currentUsername, otherUsername, privateKey of currentUsername).
EncGetMessages ==
  /\ encLog # <<>>
  /\ \E currentUsername \in EncUsers, otherUsername \in EncUsers :
       /\ currentUsername # otherUsername
       /\ \E messages \in EncQueryResults(currentUsername, otherUsername) :
            encRead' = [variant |-> encLog[1].variant,
                        currentUsername |-> currentUsername,
                        otherUsername |-> otherUsername,
                        order |-> messages,
                        messages |-> EncDecryptAll(encLog[1].variant, messages,
                                                   currentUsername, otherUsername)]
  /\ UNCHANGED <<encStore, encLog, queueVars, messageVars, tableVars, appVars>>

NextEncrypted == EncSendMessage \/ EncGetMessages

SpecEncrypted == InitStore /\ [][NextEncrypted]_vars

\* The key of a logical message: (sender, decoded content, timestamp, content type).
LogicalKey(senderUsername, content, timestamp, contentType) ==
  <<senderUsername, content, timestamp, contentType>>

\* The number of returned messages that carry the key of the row `id`.
CopiesReturned(id) ==
  LET r == EncRow(id)
      k == LogicalKey(r.sender_username, r.encrypted_content.plain, r.timestamp,
                      r.content_type)
  IN Cardinality({ i \in DOMAIN encRead.messages :
                     LogicalKey(encRead.messages[i].sender_username,
                                encRead.messages[i].content,
                                encRead.messages[i].timestamp,
                                encRead.messages[i].content_type) = k })

\* C11: in the encrypted variant getMessages returns exactly one logical
\* message, neither none nor two, for the stored copies of a message that
\* share (sender, decoded content, timestamp, content type), for the sender
\* and for the receiver and in whichever order the store returned the rows.
C11_DedupDualCopies ==
  encRead.variant # "none" =>
    \A i \in DOMAIN encRead.order : CopiesReturned(encRead.order[i]) = 1

\* The same statement for the implementation of src/middleware.ts alone.
C11_MiddlewareDedup ==
  encRead.variant = "middleware" =>
    \A i \in DOMAIN encRead.order : CopiesReturned(encRead.order[i]) = 1

\* A sender has read a conversation that holds both copies of a message.
C11_SenderReadBoth ==
  /\ encRead.variant = "middleware"
  /\ \E i, j \in DOMAIN encRead.order :
       /\ i < j
       /\ EncRow(encRead.order[i]).receiver_username = encRead.otherUsername
       /\ EncRow(encRead.order[j]).receiver_username = encRead.currentUsername
       /\ EncRow(encRead.order[j]).sender_username = encRead.currentUsername
       /\ EncRow(encRead.order[i]).timestamp = EncRow(encRead.order[j]).timestamp


\* The send that stored the row `id`: sendMessage inserts rows 2k-1 and 2k.
SendOf(id) == encLog[(id + 1) \div 2]

\* C27: in the encrypted variant getMessages(A, B) returns only logical
\* messages that were sent from A to B or from B to A; the self-addressed
\* copy of a message that A sent to a third user never appears in it.
C27_ConversationIsolation ==
  encRead.variant # "none" =>
    \A i \in DOMAIN encRead.messages :
      {SendOf(encRead.messages[i].id).sender, SendOf(encRead.messages[i].id).receiver}
        = {encRead.currentUsername, encRead.otherUsername}

\* The same statement for the messages the other user sent to the reader.
C27_IncomingIsolated ==
  encRead.variant # "none" =>
    \A i \in DOMAIN encRead.messages :
      encRead.messages[i].sender_username # encRead.currentUsername =>
        /\ SendOf(encRead.messages[i].id).sender = encRead.otherUsername
        /\ SendOf(encRead.messages[i].id).receiver = encRead.currentUsername

\* The other user's message to the reader was returned.
C27_IncomingRead ==
  /\ encRead.variant # "none"
  /\ \E i \in DOMAIN encRead.messages :
       encRead.messages[i].sender_username = encRead.otherUsername

(***************************************************************************)
(* The status and edit columns of the messages table and the message_reads *)
(* table, with the functions of src/lib/messageStatus.ts that write them.  *)
(***************************************************************************)

TableUsers == {"alice", "bob"}

\* MessageStatusType
MessageStatusTypes == {"sending", "sent", "delivered", "read", "failed"}

\* edited_at of a row that was never edited (NULL).
Null == -1

OtherUser(u) == IF u = "alice" THEN "bob" ELSE "alice"

\* The row an insert of sendMessage creates at the time `at`, with the
\* column defaults of the migration.
NewRow(senderUsername, content, at) ==
  [sender_username |-> senderUsername, receiver_username |-> OtherUser(senderUsername),
   content |-> content, message_timestamp |-> at, status |-> "sent",
   is_edited |-> FALSE, edited_at |-> Null, edit_history |-> <<>>,
   chunk_info |-> NoChunk]

\* A message is stored.
StoreRow(senderUsername, content) ==
  /\ Len(table) < MaxTableRows
  /\ table' = Append(table, NewRow(senderUsername, content, time))

\* UPDATE messages SET status = s for the rows whose id is in matching.
UpdateStatusWhere(rows, matching, s) ==
  [id \in DOMAIN rows |-> IF id \in matching
                          THEN [rows[id] EXCEPT !.status = s] ELSE rows[id]]

StatusCall(op, ids, status, before, after, result) ==
  [op |-> op, ids |-> ids, status |-> status, reader |-> "",
   before |-> before, after |-> after, receiptsBefore |-> receipts, result |-> result]

StoreMessage ==
  /\ \E senderUsername \in TableUsers : StoreRow(senderUsername, <<"a">>)
  /\ UNCHANGED <<receipts, lastCall, time, ticks, editCalls, editLog, canEdit>>
  /\ UNCHANGED <<queueVars, messageVars, encVars, appVars>>

\* updateMessageStatus(messageId, status); the request may fail.
UpdateMessageStatus ==
  /\ \E messageId \in MessageIds, status \in MessageStatusTypes, error \in BOOLEAN :
       LET matches == { id \in DOMAIN table : id = messageId }
           after == IF error THEN table ELSE UpdateStatusWhere(table, matches, status)
       IN /\ table' = after
          /\ lastCall' = StatusCall("updateMessageStatus", {messageId}, status,
                                    table, after, ~error)
  /\ UNCHANGED <<receipts, time, ticks, editCalls, editLog, canEdit>>
  /\ UNCHANGED <<queueVars, messageVars, encVars, appVars>>

\* The filter batchMarkAsDelivered adds to .in('id', messageIds).
AnyStatus(row) == TRUE

OnlySent(row) == row.status = "sent"

\* batchMarkAsDelivered(messageIds)
BatchMarkAsDelivered ==
  /\ \E messageIds \in SUBSET MessageIds, error \in BOOLEAN :
       LET matches == { id \in DOMAIN table : id \in messageIds /\ OnlySent(table[id]) }
           after == IF messageIds = {} \/ error THEN table
                    ELSE UpdateStatusWhere(table, matches, "delivered")
       IN /\ table' = after
          /\ lastCall' = StatusCall("batchMarkAsDelivered", messageIds, "delivered",
                                    table, after, messageIds = {} \/ ~error)
  /\ UNCHANGED <<receipts, time, ticks, editCalls, editLog, canEdit>>
  /\ UNCHANGED <<queueVars, messageVars, encVars, appVars>>

\* batchUpdateMessageStatus(messageIds, status)
BatchUpdateMessageStatus ==
  /\ \E messageIds \in SUBSET MessageIds, status \in {"delivered", "read"},
        error \in BOOLEAN :
       LET matches == { id \in DOMAIN table : id \in messageIds }
           after == IF messageIds = {} \/ error THEN table
                    ELSE UpdateStatusWhere(table, matches, status)
       IN /\ table' = after
          /\ lastCall' = StatusCall("batchUpdateMessageStatus", messageIds, status,
                                    table, after, messageIds = {} \/ ~error)
  /\ UNCHANGED <<receipts, time, ticks, editCalls, editLog, canEdit>>
  /\ UNCHANGED <<queueVars, messageVars, encVars, appVars>>

NextStatus ==
  \/ StoreMessage
  \/ UpdateMessageStatus
  \/ BatchMarkAsDelivered
  \/ BatchUpdateMessageStatus

SpecStatus == InitStore /\ [][NextStatus]_vars

\* The place of a status on the path sent -> delivered -> read; 0 off the path.
Rank(status) ==
  CASE status = "sent" -> 1
    [] status = "delivered" -> 2
    [] status = "read" -> 3
    [] OTHER -> 0

Regressed(from, to) == Rank(from) > 0 /\ Rank(to) > 0 /\ Rank(to) < Rank(from)

\* C12: no updateMessageStatus, batchMarkAsDelivered or
\* batchUpdateMessageStatus call moves the stored status of a message
\* backwards along sent -> delivered -> read.
C12_StatusMonotonic ==
  lastCall.op \in {"updateMessageStatus", "batchMarkAsDelivered",
                   "batchUpdateMessageStatus"} =>
    \A id \in DOMAIN lastCall.before :
      ~Regressed(lastCall.before[id].status, lastCall.after[id].status)

\* C13: batchMarkAsDelivered(ids) sets the status to delivered for exactly
\* the rows whose id is in ids and whose status is sent, leaves every other
\* row as it was, and with an empty list changes nothing and returns success.
C13_BatchMarkAsDelivered ==
  lastCall.op = "batchMarkAsDelivered" =>
    /\ DOMAIN lastCall.after = DOMAIN lastCall.before
    /\ lastCall.result =>
         \A id \in DOMAIN lastCall.before :
           lastCall.after[id] =
             IF id \in lastCall.ids /\ lastCall.before[id].status = "sent"
             THEN [lastCall.before[id] EXCEPT !.status = "delivered"]
             ELSE lastCall.before[id]
    /\ ~lastCall.result => lastCall.after = lastCall.before
    /\ lastCall.ids = {} => lastCall.result /\ lastCall.after = lastCall.before

\* A call that named a sent row and a read row, changed the one and kept the
\* other.
C13_Witness ==
  /\ lastCall.op = "batchMarkAsDelivered"
  /\ lastCall.result
  /\ \E i, j \in lastCall.ids \cap DOMAIN lastCall.before :
       /\ lastCall.before[i].status = "sent"
       /\ lastCall.after[i].status = "delivered"
       /\ lastCall.before[j].status = "read"
       /\ lastCall.after[j].status = "read"

\* The primary key the database generates for a new message_reads row.
FreshReceiptId == Cardinality(receipts) + 1

\* UNIQUE(message_id, reader_username) of message_reads.
ViolatesUnique(row, rows) ==
  \E r \in rows : r.message_id = row.message_id
                  /\ r.reader_username = row.reader_username

\* .upsert(row) without onConflict: INSERT ... ON CONFLICT (id) DO UPDATE.
\* The row carries no id, so the generated key never conflicts, and a second
\* row for the same (message_id, reader_username) is refused by the
\* unique constraint.
Upsert(row, rows) ==
  IF \E r \in rows : r.id = row.id
  THEN [rows |-> { IF r.id = row.id THEN row ELSE r : r \in rows }, error |-> FALSE]
  ELSE IF ViolatesUnique(row, rows)
  THEN [rows |-> rows, error |-> TRUE]
  ELSE [rows |-> rows \cup {row}, error |-> FALSE]

\* markMessageAsRead(messageId, readerUsername) for a stored message; the
\* only error taken into account is the one the database raises.
MarkMessageAsRead ==
  /\ \E messageId \in DOMAIN table, readerUsername \in TableUsers :
       LET row == [id |-> FreshReceiptId, message_id |-> messageId,
                   reader_username |-> readerUsername, read_at |-> time]
           done == Upsert(row, receipts)
       IN /\ receipts' = done.rows
          /\ lastCall' = [StatusCall("markMessageAsRead", {messageId}, "read",
                                     table, table, ~done.error)
                            EXCEPT !.reader = readerUsername]
  /\ UNCHANGED <<table, time, ticks, editCalls, editLog, canEdit>>
  /\ UNCHANGED <<queueVars, messageVars, encVars, appVars>>

NextReads == StoreMessage \/ MarkMessageAsRead

SpecReads == InitStore /\ [][NextReads]_vars

ReceiptsOf(rows, messageId, readerUsername) ==
  { r \in rows : r.message_id = messageId /\ r.reader_username = readerUsername }

\* C14: there is at most one read receipt for each (message_id,
\* reader_username), and a markMessageAsRead call for a pair that already has
\* its receipt changes nothing and reports success.
C14_ReadIdempotent ==
  /\ \A messageId \in MessageIds, readerUsername \in TableUsers :
       Cardinality(ReceiptsOf(receipts, messageId, readerUsername)) <= 1
  /\ lastCall.op = "markMessageAsRead" =>
       \A messageId \in lastCall.ids :
         ReceiptsOf(lastCall.receiptsBefore, messageId, lastCall.reader) # {} =>
           lastCall.result /\ receipts = lastCall.receiptsBefore

\* The part of C14 that the unique constraint does guarantee.
C14_OneReceiptPerPair ==
  \A messageId \in MessageIds, readerUsername \in TableUsers :
    Cardinality(ReceiptsOf(receipts, messageId, readerUsername)) <= 1

(***************************************************************************)
(* The edit window.                                                        *)
(***************************************************************************)

\* The most times the clock is advanced in a behaviour.
MaxTicks == 1

\* const fiveMinutes = 5 * 60 * 1000
fiveMinutes == 5 * 60 * 1000

\* The steps of the clock: the length of the window, and a millisecond more.
Advances == {fiveMinutes, fiveMinutes + 1}

\* Time passes.
Tick ==
  /\ ticks < MaxTicks
  /\ \E d \in Advances : time' = time + d
  /\ ticks' = ticks + 1
  /\ UNCHANGED <<table, receipts, lastCall, editCalls, editLog, canEdit>>
  /\ UNCHANGED <<queueVars, messageVars, encVars, appVars>>

\* return timeDiff <= fiveMinutes
StrictlyWithin(timeDiff) == timeDiff < fiveMinutes

WithinWindow(timeDiff) == timeDiff <= fiveMinutes

\* canEditMessage(messageTimestamp, senderUsername, currentUsername) at the
\* time `at`.
canEditMessage(messageTimestamp, senderUsername, currentUsername, at) ==
  IF senderUsername # currentUsername THEN FALSE
  ELSE WithinWindow(at - messageTimestamp)

\* The arguments of the canEditMessage call of a behaviour.
CanEditInputs ==
  [senderUsername : EncUsers, currentUsername : EncUsers, messageTimestamp : {0, 1, 2},
   at : {0}, result : {FALSE}, called : {FALSE}]

InitCanEdit == InitBase /\ isOnline /\ rowsIn = <<>> /\ canEdit \in CanEditInputs

CallCanEditMessage ==
  /\ canEdit' = [canEdit EXCEPT
                   !.at = time,
                   !.result = canEditMessage(canEdit.messageTimestamp,
                                canEdit.senderUsername, canEdit.currentUsername, time),
                   !.called = TRUE]
  /\ UNCHANGED <<table, receipts, lastCall, time, ticks, editCalls, editLog>>
  /\ UNCHANGED <<queueVars, messageVars, encVars, appVars>>

NextCanEdit == Tick \/ CallCanEditMessage

SpecCanEdit == InitCanEdit /\ [][NextCanEdit]_vars

\* The age of the message at the canEditMessage call, in milliseconds.
Age == canEdit.at - canEdit.messageTimestamp

\* C15: canEditMessage returns true exactly when the requester is the sender
\* and the message is at most 5 minutes old: true 1 ms before the end of the
\* window and at its end, false 1 ms after it, false for any other requester.
C15_CanEditWindow ==
  canEdit.called =>
    /\ canEdit.result <=> (canEdit.currentUsername = canEdit.senderUsername
                           /\ Age <= 300000)
    /\ canEdit.currentUsername = canEdit.senderUsername =>
         /\ Age = 299999 => canEdit.result
         /\ Age = 300000 => canEdit.result
         /\ Age = 300001 => ~canEdit.result
    /\ canEdit.currentUsername # canEdit.senderUsername => ~canEdit.result

\* The sender asked at exactly five minutes and may still edit.
C15_Witness ==
  /\ canEdit.called
  /\ canEdit.currentUsername = canEdit.senderUsername
  /\ Age = 300000
  /\ canEdit.result

(***************************************************************************)
(* editMessage.  A content is a sequence of tokens: a letter, " " for      *)
(* white space, "S" for one whole <script>...</script> block.              *)
(***************************************************************************)

\* The most editMessage calls of a behaviour.
MaxEdits == 2

\* String.prototype.trim
RECURSIVE Trim(_)
Trim(content) ==
  IF content = <<>> THEN <<>>
  ELSE IF Head(content) = " " THEN Trim(Tail(content))
  ELSE IF content[Len(content)] = " " THEN Trim(SubSeq(content, 1, Len(content) - 1))
  ELSE content

\* .replace(/<script ... <\/script>/gi, '')
RECURSIVE StripScripts(_)
StripScripts(content) ==
  IF content = <<>> THEN <<>>
  ELSE IF Head(content) = "S" THEN StripScripts(Tail(content))
  ELSE <<Head(content)>> \o StripScripts(Tail(content))

\* newContent.trim().replace(...)
Sanitize(newContent) == StripScripts(Trim(newContent))

\* !newContent || newContent.trim().length === 0
IsEmptyContent(newContent) == newContent = <<>> \/ Len(Trim(newContent)) = 0

\* if (timeDiff > fiveMinutes) return false
NeverExpired(timeDiff) == FALSE

Expired(timeDiff) == timeDiff > fiveMinutes

\* The new contents tried: the stored one, another, a padded one with a
\* script block, a script block alone, white space, nothing.
EditContents == {<<"a">>, <<"b">>, <<" ", "b", "S">>, <<"S">>, <<" ">>, <<>>}

\* .select('*').eq('id', messageId).eq('sender_username', senderUsername).single()
SelectOriginal(messageId, senderUsername) ==
  IF messageId \in DOMAIN table /\ table[messageId].sender_username = senderUsername
  THEN [found |-> TRUE, row |-> table[messageId]]
  ELSE [found |-> FALSE]

\* editHistory.push({content, editedAt: edited_at || message_timestamp})
PushHistory(originalMessage) ==
  Append(originalMessage.edit_history,
         [content |-> originalMessage.content,
          editedAt |-> IF originalMessage.edited_at # Null
                       THEN originalMessage.edited_at
                       ELSE originalMessage.message_timestamp])

\* .update({content, is_edited, edited_at, edit_history}).eq('id', messageId)
ApplyEdit(rows, messageId, update) ==
  [id \in DOMAIN rows |->
     IF id = messageId
     THEN [rows[id] EXCEPT !.content = update.content, !.is_edited = TRUE,
                           !.edited_at = update.edited_at,
                           !.edit_history = update.edit_history]
     ELSE rows[id]]

\* An editMessage call that has returned.
EditReturn(messageId, newContent, senderUsername, at, result, reason, before, after) ==
  [messageId |-> messageId, newContent |-> newContent,
   senderUsername |-> senderUsername, at |-> at, result |-> result,
   reason |-> reason, before |-> before, after |-> after]

\* The call `last` returns; `readContent` is the content its select read.
Returns(last, readContent) ==
  [returned |-> editLog.returned + 1,
   last |-> last,
   ok |-> IF last.result
          THEN [editLog.ok EXCEPT ![last.messageId] = editLog.ok[last.messageId] + 1]
          ELSE editLog.ok,
   direct |-> IF last.result /\ Trim(last.newContent) = Trim(readContent)
              THEN editLog.direct \cup {last.messageId} ELSE editLog.direct]

EditsStarted == editLog.returned + Cardinality(editCalls)

\* editMessage(messageId, newContent, senderUsername) up to its update
\* request: the select, the three checks, and the row to write.
EditFetch ==
  /\ EditsStarted < MaxEdits
  /\ \E messageId \in MessageIds, newContent \in EditContents,
        senderUsername \in TableUsers :
       LET original == SelectOriginal(messageId, senderUsername)
           reason ==
             IF ~original.found THEN "notFound"
             ELSE IF Expired(time - original.row.message_timestamp) THEN "expired"
             ELSE IF IsEmptyContent(newContent) THEN "empty"
             ELSE "none"
       IN IF reason # "none"
          THEN /\ editLog' = Returns(EditReturn(messageId, newContent, senderUsername,
                                                time, FALSE, reason, table, table),
                                     <<>>)
               /\ UNCHANGED editCalls
          ELSE /\ editCalls' = editCalls \cup
                     {[messageId |-> messageId, newContent |-> newContent,
                       senderUsername |-> senderUsername, at |-> time,
                       readContent |-> original.row.content,
                       update |-> [content |-> Sanitize(newContent),
                                   edited_at |-> time,
                                   edit_history |-> PushHistory(original.row)]]}
               /\ UNCHANGED editLog
  /\ UNCHANGED <<table, receipts, lastCall, time, ticks, canEdit>>
  /\ UNCHANGED <<queueVars, messageVars, encVars, appVars>>

\* The update request of a suspended editMessage call reaches the database,
\* or fails, and the call returns.
EditUpdate ==
  /\ \E call \in editCalls, error \in BOOLEAN :
       LET after == IF error THEN table
                    ELSE ApplyEdit(table, call.messageId, call.update)
       IN /\ table' = after
          /\ editCalls' = editCalls \ {call}
          /\ editLog' = Returns(EditReturn(call.messageId, call.newContent,
                                   call.senderUsername, call.at, ~error,
                                   IF error THEN "updateError" ELSE "none",
                                   table, after),
                                call.readContent)
  /\ UNCHANGED <<receipts, lastCall, time, ticks, canEdit>>
  /\ UNCHANGED <<queueVars, messageVars, encVars, appVars>>

NextEdit == StoreMessage \/ Tick \/ EditFetch \/ EditUpdate

SpecEdit == InitStore /\ [][NextEdit]_vars

\* The last editMessage call returned success.
Edited == editLog.returned > 0 /\ editLog.last.result

\* The element an edit of the row `old` appends to its history.
Superseded(old) ==
  [content |-> old.content,
   editedAt |-> IF old.edited_at # Null THEN old.edited_at ELSE old.message_timestamp]

\* What an accepted edit does to the row besides its content.
EditedAround(old, new, at) ==
  /\ new.is_edited = TRUE
  /\ new.edited_at = at
  /\ new.edit_history = Append(old.edit_history, Superseded(old))
  /\ new.sender_username = old.sender_username
  /\ new.receiver_username = old.receiver_username
  /\ new.message_timestamp = old.message_timestamp
  /\ new.status = old.status
  /\ new.chunk_info = old.chunk_info

OtherRowsKept(call) ==
  /\ DOMAIN call.after = DOMAIN call.before
  /\ \A id \in DOMAIN call.before : id # call.messageId => call.after[id] = call.before[id]

\* C16: an accepted edit of a message with content c, edited_at e and
\* timestamp t leaves the row with the new content, is_edited true, edited_at
\* = now and the previous history followed by {content: c, editedAt: e if set
\* else t}; its other columns and all other rows are as before.
C16_EditEffect ==
  Edited =>
    LET call == editLog.last
        old == call.before[call.messageId]
        new == call.after[call.messageId]
    IN /\ new.content = call.newContent
       /\ EditedAround(old, new, call.at)
       /\ OtherRowsKept(call)

\* C16 with the stored content read as the trimmed and sanitized new content:
\* it still fails, on the history, when two edits of a message interleave.
C16_EditEffectSanitized ==
  Edited =>
    LET call == editLog.last
        old == call.before[call.messageId]
        new == call.after[call.messageId]
    IN /\ new.content = Sanitize(call.newContent)
       /\ EditedAround(old, new, call.at)
       /\ OtherRowsKept(call)

\* C17: for every message the length of edit_history is the number of
\* editMessage calls on it that returned success, interleaved calls included.
C17_HistoryLength ==
  \A id \in DOMAIN table : Len(table[id].edit_history) = editLog.ok[id]

\* C18: no element of a message's edit_history has the content the message
\* has now.
C18_HistorySuperseded ==
  \A id \in DOMAIN table :
    \A i \in DOMAIN table[id].edit_history :
      table[id].edit_history[i].content # table[id].content

\* C18 for the messages whose accepted edits all changed the content they
\* read, as those sent by handleSave of EditMessageDialog do.
C18_ThroughDialog ==
  \A id \in DOMAIN table \ editLog.direct :
    \A i \in DOMAIN table[id].edit_history :
      table[id].edit_history[i].content # table[id].content

\* The call must be refused: the id does not resolve, the requester is not
\* the stored sender, the stored timestamp is more than 5 minutes before the
\* call, or the new content is empty or white space.
MustReject(call) ==
  \/ call.messageId \notin DOMAIN call.before
  \/ call.before[call.messageId].sender_username # call.senderUsername
  \/ call.at - call.before[call.messageId].message_timestamp > 300000
  \/ call.newContent = <<>>
  \/ \A i \in DOMAIN call.newContent : call.newContent[i] = " "

\* C19: editMessage fails whenever the id does not resolve, the requester is
\* not the stored sender, the window counted from the stored timestamp has
\* passed, or the new content is empty or white space; and a failed call
\* leaves every stored row as it was.
C19_RejectedEditsChangeNothing ==
  editLog.returned > 0 =>
    /\ MustReject(editLog.last) => ~editLog.last.result
    /\ ~editLog.last.result => editLog.last.after = editLog.last.before

\* The sender's edit came a millisecond after the window, was refused and
\* changed nothing.
C19_Witness ==
  /\ editLog.returned > 0
  /\ ~editLog.last.result
  /\ editLog.last.reason = "expired"
  /\ editLog.last.messageId \in DOMAIN editLog.last.before
  /\ editLog.last.at - editLog.last.before[editLog.last.messageId].message_timestamp
       = 300001
  /\ table = editLog.last.before

\* The content is empty or nothing but white space.
Blank(content) == \A i \in DOMAIN content : content[i] = " "

\* C29: after every editMessage call that returns success the stored content
\* of the message is non-empty and not white space only, also when the
\* submitted content is nothing but a script block that sanitization removes.
C29_NoEmptyContentAfterEdit ==
  Edited => ~Blank(editLog.last.after[editLog.last.messageId].content)

\* C29 for the submitted contents that hold more than script blocks.
C29_NonScriptContentKept ==
  (Edited /\ ~Blank(StripScripts(editLog.last.newContent)))
    => ~Blank(editLog.last.after[editLog.last.messageId].content)

\* An accepted edit whose content held a script block and a letter.
C29_ScriptAndLetter ==
  /\ Edited
  /\ editLog.last.newContent = <<" ", "b", "S">>

(***************************************************************************)
(* The chat view: handleSendMessage sends at once when online and hands    *)
(* what it could not send to the queue, whose drains call                  *)
(* handleSendMessageDirect again.                                          *)
(***************************************************************************)

\* What handleSendMessageDirect resolves to: the value of sendMessage, false
\* when sendMessage throws; sendMessage refuses invalid parameters with false.
DirectOutcomes(valid) == IF valid THEN {"ok", "false"} ELSE {"false"}

\* handleSendMessage(content, type) in the last render; valid tells whether
\* the parameters pass the validation of sendMessage.  The entry it queues is
\* marked "refused" when the direct send refused it, "invalid" when it is
\* invalid and was queued unsent.
HandleSendMessage ==
  /\ \E valid \in BOOLEAN :
       IF rendered.online
       THEN \E outcome \in DirectOutcomes(valid) :
              IF outcome = "ok"
              THEN UNCHANGED <<queueVars, kind, receiverOf>>
              ELSE /\ Enqueue
                   /\ kind' = [kind EXCEPT ![nextUid] = IF valid THEN "valid" ELSE "refused"]
                   /\ receiverOf' = [receiverOf EXCEPT ![nextUid] = selectedUser]
       ELSE /\ Enqueue
            /\ kind' = [kind EXCEPT ![nextUid] = IF valid THEN "valid" ELSE "invalid"]
            /\ receiverOf' = [receiverOf EXCEPT ![nextUid] = selectedUser]
  /\ UNCHANGED <<selectedUser, selections, drainUser>>
  /\ UNCHANGED <<messageVars, encVars, tableVars>>

\* The send a drain awaits is handleSendMessageDirect: it settles as the
\* parameters of the entry allow.
DirectSendDone ==
  \E i \in 1..Len(drains) :
    \E outcome \in DirectOutcomes(kind[drains[i].snapshot[drains[i].pos].uid] = "valid") :
      SendSettles(i, outcome)

NextApp ==
  \/ GoOnline
  \/ GoOffline
  \/ HandleSendMessage
  \/ Commit
  \/ DirectSendDone

SpecApp == Init /\ [][NextApp]_vars

\* C20: a message whose send was refused for a validation reason is not put
\* in the queue and no drain sends it again; an invalid message that reached
\* the queue unsent is sent, and refused, at most once.
C20_ValidationNotRetried ==
  \A u \in Uids :
    /\ kind[u] = "refused" => ~InQueue(u) /\ sendCount[u] = 0
    /\ kind[u] = "invalid" => sendCount[u] <= 1

\* The first half of C20 alone fails by the queueing of the refused message.
C20_RefusedNotQueued ==
  \A u \in Uids : kind[u] = "refused" => ~InQueue(u)

\* Its second half alone fails too: a drain sends the refused message again.
C20_RefusedNotSentAgain ==
  \A u \in Uids : kind[u] = "refused" => sendCount[u] = 0

(***************************************************************************)
(* The drains of the queue: when they start and what they send.            *)
(***************************************************************************)

\* C21: at most one processQueue invocation is between its start and its
\* end, whatever the interleaving of the effect and of manual processQueue
\* calls; a call made while a drain is in flight starts no second drain.
C21_SingleFlight == Len(drains) <= 1

\* React commits every pending render, and every awaited send settles.
SpecAutoFair == SpecAuto /\ WF_vars(Commit) /\ WF_vars(SendDone)

\* The bounds of the model leave no room for another drain of the queue.
OutOfRoom == ~UnderCap(messageQueue)

\* The effect has run on the state as it is, online and with entries queued.
SettledOnline == rendered = CurrentState /\ isOnline /\ Len(messageQueue) > 0

\* Connectivity has come up since the last render and no drain is in flight.
Reconnected == isOnline /\ ~rendered.online /\ drains = <<>> /\ ~isProcessing

\* C22: when connectivity has come up with entries queued and no drain in
\* flight, the effect starts a drain: once the render is committed a drain
\* is running, and every queued entry has its send invoked at least once
\* unless connectivity goes down again first.
C22_DrainOnReconnect ==
  /\ [](SettledOnline => isProcessing /\ Len(drains) > 0)
  /\ \A u \in Uids :
       (Reconnected /\ InQueue(u) /\ sendCount[u] = 0)
         ~> (sendCount[u] >= 1 \/ ~isOnline \/ OutOfRoom)

\* Entries were queued offline, connectivity came up and the first of them
\* was sent.
C22_Witness ==
  /\ offlineBatch
  /\ nextUid > 2
  /\ isOnline
  /\ sendCount[1] >= 1
  /\ sendCount[2] >= 1

\* C23: the effect starts a drain only when connectivity has gone from down
\* to up since the last render; while connectivity stays up it starts none,
\* not even after a drain that left failed entries in the queue.
C23_EdgeTriggered ==
  [][Len(drains') > Len(drains) => ~rendered.online /\ isOnline]_vars

\* The part of C23 about a finished drain: a drain that left entries queued
\* is not followed by another while connectivity stays up.
C23_NoRedrainWhileUp ==
  [][(Len(drains') > Len(drains) /\ rendered.online)
       => \A i \in 1..Len(messageQueue) : sendCount[messageQueue[i].uid] = 0]_vars

\* A step in which onSendMessage is invoked for the entry u.
SendInvoked(u) == sendCount'[u] > sendCount[u]

\* C30: processQueue invokes the send operation for a queued entry only
\* while connectivity is up; when connectivity drops during a drain the
\* remaining entries of that drain are not sent, and their retryCount is not
\* incremented, until connectivity is up again.
C30_NoSendWhileOffline ==
  [][\A u \in Uids : SendInvoked(u) => isOnline]_vars

\* C30 for the first send of a drain, which the guard of processQueue covers.
C30_DrainStartsOnline ==
  [][Len(drains') > Len(drains) => isOnline]_vars

\* The rows of group g hold every index and exactly one of them twice.
OneDuplicate(g) ==
  /\ ~IndexMissing(g)
  /\ \E j \in Fragments(g) :
       Cardinality(Fragments(g)) = rowsIn[j].chunk_info.total_chunks + 1

\* The first-seen fragment of each index of group g, by index.
FirstSeen(g) ==
  LET total == Cardinality(Fragments(g)) - 1
      first(index) == CHOOSE k \in Fragments(g) :
                        /\ rowsIn[k].chunk_info.chunk_index = index
                        /\ \A j \in Fragments(g) :
                             rowsIn[j].chunk_info.chunk_index = index => k <= j
  IN [n \in 1..total |-> rowsIn[first(n - 1)]]

\* What came out for group g.
OutputOf(g) ==
  { k \in 1..Len(processed) :
      \E j \in Fragments(g) : processed[k].id = rowsIn[j].id }

\* C24: when the rows of a chunk group hold every index and one index twice,
\* processChunkedMessages keeps the first-seen fragment of each index and
\* emits one logical message with the original content.
C24_DuplicateFragments ==
  HasRead =>
    \A g \in GroupsIn :
      OneDuplicate(g) =>
        /\ Cardinality(OutputOf(g)) = 1
        /\ \A k \in OutputOf(g) :
             /\ ~IsChunked(processed[k])
             /\ processed[k].content = JoinContents(FirstSeen(g))

(***************************************************************************)
(* The three tests of editability side by side.  An instant is a number of *)
(* microseconds, the resolution of timestamptz and of CURRENT_TIMESTAMP;   *)
(* a JavaScript Date holds whole milliseconds.                             *)
(***************************************************************************)

\* new Date(timestamp).getTime(), and new Date().getTime() at an instant:
\* the milliseconds, the rest dropped.
GetTime(instant) == instant \div 1000

\* interval '5 minutes', in microseconds
FiveMinuteInterval == 5 * 60 * 1000 * 1000

\* The window and sender test of editMessage on the stored message, at an
\* instant of the client's clock.
EditMessageAllows(message, senderUsername, instant) ==
  /\ message.sender_username = senderUsername
  /\ ~Expired(GetTime(instant) - GetTime(message.message_timestamp))

\* can_edit_message(message_id, username) of the database at CURRENT_TIMESTAMP.
can_edit_message(message, username, instant) ==
  IF message.sender_username # username THEN FALSE
  ELSE IF instant - message.message_timestamp > FiveMinuteInterval THEN FALSE
  ELSE TRUE

\* The stored messages, requesters and instants compared: message timestamps
\* on and off a whole millisecond, instants around five minutes later.
AgreeInputs ==
  [message : [sender_username : TableUsers, message_timestamp : {0, 1000, 1500}],
   requester : EncUsers,
   instant : { FiveMinuteInterval + d : d \in {-1000, 0, 500, 1000, 1500, 2000} },
   client : {FALSE}, edit : {FALSE}, database : {FALSE}, called : {FALSE}]

InitAgree == InitBase /\ isOnline /\ rowsIn = <<>> /\ canEdit \in AgreeInputs

\* The three tests are evaluated for the same message, requester and instant.
CompareEditability ==
  /\ ~canEdit.called
  /\ canEdit' = [canEdit EXCEPT
       !.client = canEditMessage(GetTime(canEdit.message.message_timestamp),
                                 canEdit.message.sender_username, canEdit.requester,
                                 GetTime(canEdit.instant)),
       !.edit = EditMessageAllows(canEdit.message, canEdit.requester, canEdit.instant),
       !.database = can_edit_message(canEdit.message, canEdit.requester, canEdit.instant),
       !.called = TRUE]
  /\ UNCHANGED <<table, receipts, lastCall, time, ticks, editCalls, editLog>>
  /\ UNCHANGED <<queueVars, messageVars, encVars, appVars>>

NextAgree == CompareEditability

SpecAgree == InitAgree /\ [][NextAgree]_vars

\* C25: for every stored message, requester and current time, canEditMessage,
\* the check inside editMessage and can_edit_message of the database give the
\* same answer, also at exactly five minutes of age.
C25_EditabilityAgrees ==
  canEdit.called =>
    /\ canEdit.client = canEdit.edit
    /\ canEdit.edit = canEdit.database

\* The two client-side tests agree with each other everywhere, and all three
\* agree when the timestamp and the instant are whole milliseconds.
C25_AgreeAtMilliseconds ==
  canEdit.called =>
    /\ canEdit.client = canEdit.edit
    /\ (canEdit.instant % 1000 = 0 /\ canEdit.message.message_timestamp % 1000 = 0)
         => canEdit.edit = canEdit.database

(***************************************************************************)
(* The chat view with a changing selection: the queue is wired to          *)
(* (content, type, receiver) => handleSendMessageDirect(content, type),    *)
(* and handleSendMessageDirect sends to the selectedUser of its render.    *)
(***************************************************************************)

\* The most changes of the selected user in a behaviour.
MaxSelections == 1

ChatPartners == {"bob", "carol"}

\* The user picks another conversation partner.
SelectUser ==
  /\ selections < MaxSelections
  /\ \E user \in ChatPartners \ {selectedUser} : selectedUser' = user
  /\ selections' = selections + 1
  /\ UNCHANGED <<kind, receiverOf, drainUser>>
  /\ UNCHANGED <<queueVars, messageVars, encVars, tableVars>>

\* A render is committed; the drain its effect starts calls the
\* handleSendMessageDirect of this render, which sends to this selectedUser.
ChatCommit ==
  /\ Render
  /\ drainUser' = IF Len(drains') > Len(drains)
                  THEN Append(drainUser, selectedUser) ELSE drainUser
  /\ UNCHANGED <<kind, selectedUser, selections, receiverOf>>
  /\ UNCHANGED <<messageVars, encVars, tableVars>>

\* The awaited send of a drain settles.
ChatSendDone ==
  /\ \E i \in 1..Len(drains) :
       /\ \E outcome \in DirectOutcomes(kind[drains[i].snapshot[drains[i].pos].uid] = "valid") :
            Settle(i, outcome)
       /\ drainUser' = IF Len(drains') < Len(drains)
                       THEN [j \in 1..(Len(drainUser) - 1) |->
                               IF j < i THEN drainUser[j] ELSE drainUser[j + 1]]
                       ELSE drainUser
  /\ UNCHANGED <<kind, selectedUser, selections, receiverOf>>
  /\ UNCHANGED <<messageVars, encVars, tableVars>>

NextChat ==
  \/ GoOnline
  \/ GoOffline
  \/ HandleSendMessage
  \/ SelectUser
  \/ ChatCommit
  \/ ChatSendDone

SpecChat == Init /\ [][NextChat]_vars

\* C26: every send a drain has invoked for a queued entry goes to the
\* receiver recorded in the entry when it was queued, also after the
\* selected conversation partner has changed.
C26_QueuedReceiverKept ==
  \A i \in 1..Len(drains) :
    drainUser[i] = receiverOf[drains[i].snapshot[drains[i].pos].uid]

(***************************************************************************)
(* editMessage on the rows sendMessage stored, followed by getMessages.    *)
(* The rows written by sendMessage carry the defaults of the edit columns: *)
(* is_edited false, edited_at null, edit_history [].                       *)
(***************************************************************************)

\* The most editMessage calls on the store in a behaviour; with one call
\* nothing else writes the row between its select and its update.
MaxStoreEdits == 1

\* The character code of a token; a script block, which sanitization never
\* leaves in a stored content, stands as its first character.
CharCode(token) ==
  CASE token = "a" -> 97
    [] token = "b" -> 98
    [] token = " " -> 32
    [] OTHER -> 60

\* The string of a sequence of tokens, as the store holds a content.
RECURSIVE Encode(_)
Encode(tokens) ==
  IF tokens = <<>> THEN <<>>
  ELSE Concat(<<[from |-> CharCode(Head(tokens)), to |-> CharCode(Head(tokens))]>>,
              Encode(Tail(tokens)))

\* The row as the database holds it, the columns no edit has written at
\* their defaults.
WithEditColumns(r) ==
  IF "is_edited" \in DOMAIN r THEN r
  ELSE [f \in DOMAIN r \cup {"is_edited", "edited_at", "edit_history"} |->
          CASE f = "is_edited" -> FALSE
            [] f = "edited_at" -> Null
            [] f = "edit_history" -> <<>>
            [] OTHER -> r[f]]

\* .select('*').eq('id', messageId).eq('sender_username', senderUsername).single()
SelectStored(messageId, senderUsername) ==
  LET rows == { r \in store : r.id = messageId /\ r.sender_username = senderUsername }
  IN IF rows = {} THEN [found |-> FALSE]
     ELSE [found |-> TRUE, row |-> WithEditColumns(CHOOSE r \in rows : TRUE)]

\* .update({content, is_edited, edited_at, edit_history}).eq('id', messageId)
UpdateStored(rows, messageId, update) ==
  { IF r.id = messageId
    THEN [WithEditColumns(r) EXCEPT !.content = update.content, !.is_edited = TRUE,
                                    !.edited_at = update.edited_at,
                                    !.edit_history = update.edit_history]
    ELSE r : r \in rows }

\* new Date() of the editing client: the time of the last send, or five
\* minutes later.
EditClock == {MaxTime, MaxTime + fiveMinutes}

\* editMessage(messageId, newContent, senderUsername) on the id of a logical
\* message the last getMessages returned.  Ghost: readOf is reset, no
\* getMessages call has followed this edit.
EditStored ==
  /\ editLog.returned < MaxStoreEdits
  /\ \E k \in DOMAIN fetched, newContent \in EditContents,
        senderUsername \in TableUsers, at \in EditClock :
       LET messageId == fetched[k].id
           original == SelectStored(messageId, senderUsername)
           reason ==
             IF ~original.found THEN "notFound"
             ELSE IF Expired(at - original.row.message_timestamp) THEN "expired"
             ELSE IF IsEmptyContent(newContent) THEN "empty"
             ELSE "none"
           after ==
             IF reason # "none" THEN store
             ELSE UpdateStored(store, messageId,
                               [content |-> Encode(Sanitize(newContent)),
                                edited_at |-> at,
                                edit_history |-> PushHistory(original.row)])
       IN /\ store' = after
          /\ editLog' = [editLog EXCEPT
                           !.returned = @ + 1,
                           !.last = EditReturn(messageId, newContent, senderUsername,
                                               at, reason = "none", reason,
                                               fetched[k], after)]
  /\ readOf' = NoRead
  /\ UNCHANGED <<sendResult, sentLog, queried, processed, fetched, rowsIn>>
  /\ UNCHANGED <<table, receipts, lastCall, time, ticks, editCalls, canEdit>>
  /\ UNCHANGED <<queueVars, encVars, appVars>>

NextEditStore ==
  \/ SendMessage
  \/ GetMessages
  \/ EditStored

\* The messages table under sendMessage, getMessages and editMessage.
SpecEditStore == InitStore /\ [][NextEditStore]_vars

\* The last editMessage call succeeded and getMessages has since been called
\* for the conversation of the message it edited.
ReadAfterEdit ==
  /\ Edited
  /\ HasRead
  /\ {editLog.last.before.sender_username, editLog.last.before.receiver_username}
       = {readOf.currentUsername, readOf.otherUsername}

\* The contents getMessages returned for the logical message of the edit.
ContentsRead ==
  { fetched[k].content : k \in { j \in DOMAIN fetched : fetched[j].id = editLog.last.messageId } }

\* C28: after editMessage succeeds with new content n on the id of a logical
\* message returned by getMessages, the next getMessages returns that logical
\* message with content exactly the sanitized n, also when the logical
\* message was reassembled from a chunk group.
C28_EditThenRead ==
  ReadAfterEdit => ContentsRead = {Encode(Sanitize(editLog.last.newContent))}

\* C28 for the logical messages stored in one row.
C28_RegularEditThenRead ==
  (ReadAfterEdit /\ Length(editLog.last.before.content) <= ChunkThreshold)
    => ContentsRead = {Encode(Sanitize(editLog.last.newContent))}

\* A message stored in one row was edited and read again.
C28_RegularRead ==
  /\ ReadAfterEdit
  /\ Length(editLog.last.before.content) <= ChunkThreshold
  /\ editLog.last.newContent = <<" ", "b", "S">>

=============================================================================
